---- MODULE Spec2Model ----
\* Model of the client stream reducer of localstack-studio:
\* the React hook useQueueMessages (frontend/src/features/sqs/hooks/useQueueMessages.js)
\* together with the browser objects it drives (WebSocket, setTimeout timers).
\*
\* One action is one browser task: a React commit (cleanup of the previous
\* effect followed by the new effect body), a WebSocket event with the
\* handlers the hook attached to it, or the firing of a timer.
\*
\* The server side of the pipeline (the polling loop and the registry of
\* connected clients behind /ws/messages/{queue_name}) is modelled from its
\* specification, for the Channel of one queue: SpecServer.
\*
\* The other stateful parts of the frontend each have their own steps and
\* specification: the delete button of QueueViewer (SpecViewer), usePoll
\* (SpecPoll), useApi (SpecApi) and the paginated list of ItemViewer
\* (SpecItems). No part writes the variables of another, except that a queue
\* selection runs the effects of the hook and of QueueViewer together.
EXTENDS Integers, Sequences, FiniteSets, Bags, TLC

\* ---------------------------------------------------------------- bounds
MaxSockets == 4          \* WebSocket objects created in one run
MaxMsgId == 2            \* message ids the server delivers: 1..MaxMsgId
MaxReceipt == 2          \* receipt handles (the payload that varies per delivery)
MaxSubscribers == 2      \* connections that attach to the Channel
MaxTiedId == 3           \* message ids of the stream with equal sent-times
MaxInFlight == 2         \* DELETE requests in flight for one message
MaxIntervals == 3        \* setInterval calls of usePoll in one run
MaxCallbacks == 2        \* distinct callback functions passed to usePoll
MaxApiRequests == 3      \* useApi requests in flight, and requests an effect issues
MaxResults == 2          \* distinct results a useApi request returns
MaxItems == 2            \* items ItemViewer holds
MaxKey == 1              \* pagination keys a scan or query returns: 1..MaxKey
MaxItemRequests == 2     \* scan and query requests in flight

\* ------------------------------------------------------------- constants
Limit == 100             \* .slice(0, 100)
DefaultInterval == 10000 \* usePoll: interval = 10000
DefaultScanLimit == 50   \* ItemViewer: useState(50)
MaxNumberOfMessages == 10  \* the batch size of one poll
Null == 0                \* null in a ref that otherwise holds an object or timer id
Absent == 0 - 1          \* attributes?.SentTimestamp is undefined
NoQueue == "none"        \* queueName is null (no queue selected)
Queues == {"orders", "users"}
SortOrders == {"oldest-first", "newest-first"}
NoError == "null"
ConnError == "WebSocket connection error"

MsgIds == 1..MaxMsgId
Receipts == 1..MaxReceipt

\* data.message as the server sends it: message id was sent at time id, and
\* each receive of it carries some receipt handle
Message(id, receipt) ==
  [messageId |-> id, SentTimestamp |-> id, receiptHandle |-> receipt]

\* event.data: text that JSON.parse rejects, or { queue, message }
MalformedData ==
  [parses |-> FALSE, queue |-> NoQueue, message |-> Message(1, 1)]

EventData ==
  {MalformedData} \cup
  {[parses |-> TRUE, queue |-> q, message |-> Message(id, r)] :
     q \in Queues, id \in MsgIds, r \in Receipts}

\* the events of a stream of well-formed payloads on which every message
\* keeps its first receipt handle (the stream of the connection lifecycle, Spec)
StreamData == {d \in EventData : d.parses /\ d.message.receiptHandle = 1}

\* A stream in which messages share their sent-time: ids 1 and 2 were sent at
\* time 1, ids 3 and 4 at time 2, and so on.
TiedMessage(id, receipt) ==
  [messageId |-> id, SentTimestamp |-> (id + 1) \div 2, receiptHandle |-> receipt]

TiedData ==
  {[parses |-> TRUE, queue |-> "orders", message |-> TiedMessage(id, r)] :
     id \in 1..MaxTiedId, r \in Receipts}

\* no message (the value of lastAdmitted when the last step admitted none)
NoMessage ==
  [messageId |-> 0, SentTimestamp |-> Absent, receiptHandle |-> 0, queue |-> NoQueue]

VARIABLES
  queueName,            \* hook argument queueName of the last render
  sortOrder,            \* hook argument sortOrder of the last render
  mounted,              \* the component using the hook is mounted
  messages,             \* useState: the Collection
  isConnected,          \* useState
  isLoading,            \* useState
  error,                \* useState
  wsRef,                \* useRef: index into sockets, or Null
  reconnectTimeoutRef,  \* useRef: id of a reconnect timer, or Null
  loadingTimeoutRef,    \* useRef: id of a loading timer, or Null
  sockets,              \* every WebSocket created so far, in creation order
  reconnectTimers,      \* pending setTimeout(connect, 3000) timers
  loadingTimers,        \* pending setTimeout(setIsLoading(false), 3000) timers
  admitted,             \* history: the message ids admitted since the effect last ran
  redelivered,          \* history: the last step admitted an id admitted before
  lastAdmitted,         \* history: the entry the last step merged into the
                        \* Collection, NoMessage when it merged none
  droppedOn,            \* history: the socket that dropped a payload which failed
                        \* to parse, with only message events since; else Null
  subscribers,          \* server: the connections attached to the Channel
  polling,              \* server: the polling loop of the Channel is running
  store,                \* backing store: per message id, its status in the queue
                        \* and how often it was received
  published,            \* history: the events the last step published
  delivered,            \* history: per connection, the bag of events the last
                        \* step sent to it
  deletingMessageId,    \* QueueViewer useState: a message id, or Null
  deletedMessageIds,    \* QueueViewer useState: array of message ids
  deleteRequests,       \* the DELETE requests in flight: a bag of message ids
  pollMounted,          \* the component using usePoll is mounted
  callback,             \* usePoll argument callback of the last render: a
                        \* function (1..MaxCallbacks), or Null when none is passed
  interval,             \* usePoll argument interval of the last render
  enabled,              \* usePoll argument enabled of the last render
  savedCallback,        \* useRef of usePoll: a function, or Null
  intervalId,           \* the id held by the cleanup of the interval effect,
                        \* Null when the effect returned without an interval
  activeIntervals,      \* the intervals set and not cleared
  intervalsCreated,     \* the number of setInterval calls so far
  callbackAtCreation,   \* history: callback when the interval was last set
  invoked,              \* history: the function the last step called, or Null
  apiPhase,             \* the component using useApi: "initial" (not rendered
                        \* yet), "mounted" or "unmounted"
  endpoint,             \* useApi argument endpoint
  optionsDefault,       \* the caller leaves options at its default, so every
                        \* render evaluates options = {} to a new object
  immediate,            \* useApi argument immediate
  apiData,              \* useState data: a result, or Null
  apiLoading,           \* useState loading
  apiError,             \* useState error: a message, or NoError
  apiRequests,          \* the fetch calls in flight
  renderPending,        \* a state update of useApi is waiting for its re-render
  effectRequests,       \* history: the requests the effect has issued
  tableName,            \* ItemViewer prop tableName of the last render
  mode,                 \* ItemViewer useState: "scan" or "query"
  items,                \* ItemViewer useState: array of items
  tableInfo,            \* ItemViewer useState: the table info was loaded
  itemsLoading,         \* ItemViewer useState isLoading
  itemsError,           \* ItemViewer useState error
  lastEvaluatedKey,     \* ItemViewer useState: a pagination key, or Null
  hasMore,              \* ItemViewer useState
  scanLimit,            \* ItemViewer useState
  showQueryBuilder,     \* ItemViewer useState
  currentQuery,         \* ItemViewer useState: query parameters, or Null
  itemRequests,         \* the scan and query requests in flight: a bag of
                        \* [kind, startKey]
  tableInfoRequests,    \* the table info requests in flight
  itemDeletes           \* the item DELETE requests in flight: a bag of the
                        \* [mode, currentQuery] their handler closed over

hookVars ==
  <<queueName, sortOrder, mounted, messages, isConnected, isLoading, error,
    wsRef, reconnectTimeoutRef, loadingTimeoutRef, sockets, reconnectTimers,
    loadingTimers, admitted, redelivered, lastAdmitted, droppedOn>>

serverVars == <<subscribers, polling, store, published, delivered>>

viewerVars == <<deletingMessageId, deletedMessageIds, deleteRequests>>

\* the variables outside a part of the program, which its steps leave alone:
\* outside QueueViewer and its hook, and outside the server
pollVars ==
  <<pollMounted, callback, interval, enabled, savedCallback, intervalId,
    activeIntervals, intervalsCreated, callbackAtCreation, invoked>>

apiVars ==
  <<apiPhase, endpoint, optionsDefault, immediate, apiData, apiLoading,
    apiError, apiRequests, renderPending, effectRequests>>

itemVars ==
  <<tableName, mode, items, tableInfo, itemsLoading, itemsError,
    lastEvaluatedKey, hasMore, scanLimit, showQueryBuilder, currentQuery,
    itemRequests, tableInfoRequests, itemDeletes>>

outsideQueueViewer == <<serverVars, pollVars, apiVars, itemVars>>

outsideServer == <<hookVars, viewerVars, pollVars, apiVars, itemVars>>

outsidePoll == <<hookVars, serverVars, viewerVars, apiVars, itemVars>>

outsideApi == <<hookVars, serverVars, viewerVars, pollVars, itemVars>>

outsideItems == <<hookVars, serverVars, viewerVars, pollVars, apiVars>>

vars == <<hookVars, serverVars, viewerVars, pollVars, apiVars, itemVars>>

\* A timer is identified by the socket whose handler scheduled it: onopen and
\* onclose run at most once per socket, so each socket schedules at most one
\* loading timer and at most one reconnect timer.

\* -------------------------------------------------- the setMessages updater
\* parseInt(a.attributes?.SentTimestamp || '0')
ParseSent(m) == IF m.SentTimestamp = Absent THEN 0 ELSE m.SentTimestamp

\* { ...data.message, receivedAt, queue: data.queue }; receivedAt is the wall
\* clock of the admission, which no code of the hook reads, and is left out
NewMessage(data) ==
  [messageId |-> data.message.messageId,
   SentTimestamp |-> data.message.SentTimestamp,
   receiptHandle |-> data.message.receiptHandle,
   queue |-> data.queue]

\* the position of the entry stored under key id, 0 when there is none
IndexOf(arr, id) ==
  LET found == {i \in 1..Len(arr) : arr[i].messageId = id}
  IN  IF found = {} THEN 0
      ELSE CHOOSE i \in found : \A j \in found : i <= j

\* A Map: its keys, and its values in the order in which their keys were
\* first inserted (the order of messageMap.values()).
EmptyMap == [keys |-> {}, vals |-> <<>>]

\* a map that keeps both entries of a duplicated key
MapSetAppend(map, msg) ==
  [keys |-> map.keys \cup {msg.messageId}, vals |-> Append(map.vals, msg)]

\* a map that keeps the first value stored under a key
MapSetKeepFirst(map, msg) ==
  IF msg.messageId \in map.keys THEN map
  ELSE [keys |-> map.keys \cup {msg.messageId}, vals |-> Append(map.vals, msg)]

\* a map in which a key that is set again moves to the end
MapSetMoveToEnd(map, msg) ==
  [keys |-> map.keys \cup {msg.messageId},
   vals |-> Append(SelectSeq(map.vals, LAMBDA m : m.messageId # msg.messageId), msg)]

\* messageMap.set(msg.messageId, msg): an existing key keeps its position and
\* takes the new value, a new key goes to the end
MapSet(map, msg) ==
  IF msg.messageId \in map.keys
    THEN [map EXCEPT !.vals[IndexOf(map.vals, msg.messageId)] = msg]
    ELSE [keys |-> map.keys \cup {msg.messageId}, vals |-> Append(map.vals, msg)]

\* prev.forEach(msg => messageMap.set(msg.messageId, msg)): one set per entry,
\* in array order (first the entries of the front half, then those of the rest;
\* the test on front only makes the evaluation finish the front half first)
RECURSIVE MapFromArray(_, _)
MapFromArray(map, arr) ==
  IF arr = <<>> THEN map
  ELSE IF Len(arr) = 1 THEN MapSet(map, arr[1])
  ELSE LET front == MapFromArray(map, SubSeq(arr, 1, Len(arr) \div 2))
       IN  IF front.keys = {} THEN front
           ELSE MapFromArray(front, SubSeq(arr, Len(arr) \div 2 + 1, Len(arr)))

\* the comparator of .sort() on the parsed times: negative, zero or positive
Compare(timeA, timeB, order) ==
  IF order = "newest-first" THEN timeB - timeA ELSE timeA - timeB

Times(arr) == {ParseSent(arr[i]) : i \in 1..Len(arr)}

\* the time the comparator puts before all others of arr
FirstTime(arr, order) ==
  CHOOSE t \in Times(arr) : \A u \in Times(arr) : Compare(t, u, order) <= 0

\* Array.prototype.sort with the comparator. The sort is stable: the entries
\* the comparator calls equal (same parsed time) keep their relative order.
RECURSIVE Sort(_, _)
Sort(arr, order) ==
  IF arr = <<>> THEN <<>>
  ELSE LET t == FirstTime(arr, order)
           IsFirst(m) == Compare(ParseSent(m), t, order) = 0
           IsLater(m) == Compare(ParseSent(m), t, order) # 0
       IN  SelectSeq(arr, IsFirst) \o Sort(SelectSeq(arr, IsLater), order)

\* no truncation
SliceAll(arr) == arr

\* .slice(0, 100)
Slice(arr) == IF Len(arr) <= Limit THEN arr ELSE SubSeq(arr, 1, Limit)

\* Array.from(messageMap.values()) after the upsert, before sort and slice
Merged(prev, data) == MapSet(MapFromArray(EmptyMap, prev), NewMessage(data)).vals

\* the function passed to setMessages in ws.onmessage
Updater(prev, data, order) == Slice(Sort(Merged(prev, data), order))

\* ------------------------------------------------------------ React state
\* A state setter called after the component unmounted has no effect.
SetState(old, new) == IF mounted THEN new ELSE old

\* ----------------------------------------------------------- WebSocket
NewSocket(q, s) == [queue |-> q, sortOrder |-> s, readyState |-> "CONNECTING"]

\* ws.close(): starts the closing handshake of a socket that is not closed
CloseSocket(socks, ref) ==
  IF ref # Null /\ socks[ref].readyState \in {"CONNECTING", "OPEN"}
    THEN [socks EXCEPT ![ref].readyState = "CLOSING"]
    ELSE socks

\* the guard of connect(): true when connect returns without a new socket
ConnectReturnsEarly(q, socks, ref) ==
  q = NoQueue \/ (ref # Null /\ socks[ref].readyState = "OPEN")

\* connect() of the render with arguments (q, s): the sockets and wsRef after
\* it (the URL is well formed, so new WebSocket does not throw)
ConnectSockets(q, s, socks, ref) ==
  IF ConnectReturnsEarly(q, socks, ref) THEN socks ELSE Append(socks, NewSocket(q, s))

ConnectRef(q, s, socks, ref) ==
  IF ConnectReturnsEarly(q, socks, ref) THEN ref ELSE Len(socks) + 1

\* connect() can create a socket only while the model's bound allows one
CanConnect(q, socks, ref) ==
  ConnectReturnsEarly(q, socks, ref) \/ Len(socks) < MaxSockets

\* ------------------------------------------------- the server, at rest
\* the connections that may attach to the Channel
Subscribers == 1..MaxSubscribers

\* an event the poller publishes: one receive of a message, identified by the
\* receipt handle of that receive (the n-th receive of a message has handle n)
Event(id, receipt) == [messageId |-> id, receiptHandle |-> receipt]

\* the server process has started: nobody is attached, no loop runs, no
\* message was sent to the queue
ServerInit ==
  /\ subscribers = {}
  /\ polling = FALSE
  /\ store = [id \in MsgIds |-> [status |-> "unsent", receives |-> 0]]
  /\ published = {}
  /\ delivered = [s \in Subscribers |-> EmptyBag]

\* QueueViewer after its first render: no delete was attempted
ViewerInit ==
  /\ deletingMessageId = Null
  /\ deletedMessageIds = <<>>
  /\ deleteRequests = EmptyBag

\* usePoll after the first render of usePoll(f) with the default interval
\* and enabled: both effects ran, the ref holds f and the interval is set
PollInit ==
  /\ pollMounted = TRUE
  /\ callback = 1
  /\ interval = DefaultInterval
  /\ enabled = TRUE
  /\ savedCallback = 1
  /\ intervalId = 1
  /\ activeIntervals = {1}
  /\ intervalsCreated = 1
  /\ callbackAtCreation = 1
  /\ invoked = Null

NoEndpoint == "null"     \* endpoint is null, undefined or ''

\* the component that uses useApi has not rendered yet
ApiInit ==
  /\ apiPhase = "initial"
  /\ endpoint = NoEndpoint
  /\ optionsDefault = TRUE
  /\ immediate = TRUE
  /\ apiData = Null
  /\ apiLoading = FALSE
  /\ apiError = NoError
  /\ apiRequests = 0
  /\ renderPending = FALSE
  /\ effectRequests = 0

NoTable == "null"        \* tableName is null (no table selected)

\* ItemViewer after its first render with no table selected: both effects
\* ran and did nothing
ItemsInit ==
  /\ tableName = NoTable
  /\ mode = "scan"
  /\ items = <<>>
  /\ tableInfo = FALSE
  /\ itemsLoading = FALSE
  /\ itemsError = NoError
  /\ lastEvaluatedKey = Null
  /\ hasMore = FALSE
  /\ scanLimit = DefaultScanLimit
  /\ showQueryBuilder = FALSE
  /\ currentQuery = Null
  /\ itemRequests = EmptyBag
  /\ tableInfoRequests = 0
  /\ itemDeletes = EmptyBag

\* ------------------------------------------------------------------ Init
\* The component mounts with no queue selected (selectedQueue is null): the
\* first effect clears the state and connect() returns at its guard.
Init ==
  /\ queueName = NoQueue
  /\ sortOrder = "oldest-first"
  /\ mounted = TRUE
  /\ messages = <<>>
  /\ isConnected = FALSE
  /\ isLoading = FALSE
  /\ error = NoError
  /\ wsRef = Null
  /\ reconnectTimeoutRef = Null
  /\ loadingTimeoutRef = Null
  /\ sockets = <<>>
  /\ reconnectTimers = {}
  /\ loadingTimers = {}
  /\ admitted = {}
  /\ redelivered = FALSE
  /\ lastAdmitted = NoMessage
  /\ droppedOn = Null
  /\ ServerInit
  /\ ViewerInit
  /\ PollInit
  /\ ApiInit
  /\ ItemsInit

\* --------------------------------------------------------------- actions
\* A render with new arguments (q, s): React runs the cleanup of the previous
\* effect and then the effect body, which ends with connect().
RunEffect(q, s) ==
  /\ mounted
  /\ CanConnect(q, sockets, Null)
  /\ queueName' = q
  /\ sortOrder' = s
  /\ messages' = <<>>
  /\ error' = NoError
  /\ isLoading' = FALSE
  /\ sockets' = ConnectSockets(q, s, CloseSocket(sockets, wsRef), Null)
  /\ wsRef' = ConnectRef(q, s, CloseSocket(sockets, wsRef), Null)
  /\ reconnectTimers' = reconnectTimers \ {reconnectTimeoutRef}
  /\ reconnectTimeoutRef' = Null
  /\ loadingTimers' = loadingTimers \ {loadingTimeoutRef}
  /\ loadingTimeoutRef' = Null
  /\ admitted' = {}
  /\ redelivered' = FALSE
  /\ lastAdmitted' = NoMessage
  /\ droppedOn' = Null
  /\ UNCHANGED outsideQueueViewer
  /\ UNCHANGED <<mounted, isConnected>>

\* the user selects another queue, or deselects (q = NoQueue): the effect of
\* the hook, and the effect of QueueViewer that empties deletedMessageIds
SelectQueue(q) ==
  /\ q # queueName
  /\ RunEffect(q, sortOrder)
  /\ deletedMessageIds' = <<>>
  /\ UNCHANGED <<deletingMessageId, deleteRequests>>

\* the user changes the sort order in QueueViewer
SetSortOrder(s) ==
  /\ queueName # NoQueue
  /\ s # sortOrder
  /\ RunEffect(queueName, s)
  /\ UNCHANGED viewerVars

\* the component unmounts: only the cleanup of the effect runs. React then
\* discards the useState values of the component (no render reads them and
\* the setters do nothing); the model holds their initial values in their
\* place. The refs, the sockets and the timers live on in the closures.
Unmount ==
  /\ mounted
  /\ mounted' = FALSE
  /\ reconnectTimers' = reconnectTimers \ {reconnectTimeoutRef}
  /\ loadingTimers' = loadingTimers \ {loadingTimeoutRef}
  /\ sockets' = CloseSocket(sockets, wsRef)
  /\ messages' = <<>>
  /\ isConnected' = FALSE
  /\ isLoading' = FALSE
  /\ error' = NoError
  /\ admitted' = {}
  /\ UNCHANGED <<queueName, sortOrder, wsRef, reconnectTimeoutRef,
                 loadingTimeoutRef>>
  /\ redelivered' = FALSE
  /\ lastAdmitted' = NoMessage
  /\ droppedOn' = Null
  /\ deletingMessageId' = Null
  /\ deletedMessageIds' = <<>>
  /\ UNCHANGED <<deleteRequests, outsideQueueViewer>>

\* a clearMessages that also resets the error flag
ClearMessagesAndError ==
  /\ mounted
  /\ messages' = <<>>
  /\ error' = NoError
  /\ UNCHANGED <<queueName, sortOrder, mounted, isConnected, isLoading,
                 wsRef, reconnectTimeoutRef, loadingTimeoutRef, sockets,
                 reconnectTimers, loadingTimers, admitted>>
  /\ redelivered' = FALSE
  /\ lastAdmitted' = NoMessage
  /\ droppedOn' = Null
  /\ UNCHANGED <<viewerVars, outsideQueueViewer>>

\* clearMessages()
ClearMessages ==
  /\ mounted
  /\ messages' = <<>>
  /\ UNCHANGED <<queueName, sortOrder, mounted, isConnected, isLoading, error,
                 wsRef, reconnectTimeoutRef, loadingTimeoutRef, sockets,
                 reconnectTimers, loadingTimers, admitted>>
  /\ redelivered' = FALSE
  /\ lastAdmitted' = NoMessage
  /\ droppedOn' = Null
  /\ UNCHANGED <<viewerVars, outsideQueueViewer>>

\* an onopen that starts loading without the initial-wait timer
WsOpenWithoutTimer(w) ==
  /\ w \in 1..Len(sockets)
  /\ sockets[w].readyState = "CONNECTING"
  /\ sockets' = [sockets EXCEPT ![w].readyState = "OPEN"]
  /\ isConnected' = SetState(isConnected, TRUE)
  /\ isLoading' = SetState(isLoading, TRUE)
  /\ error' = SetState(error, NoError)
  /\ UNCHANGED <<queueName, sortOrder, mounted, messages, wsRef,
                 reconnectTimeoutRef, reconnectTimers, loadingTimeoutRef,
                 loadingTimers, admitted>>
  /\ redelivered' = FALSE
  /\ lastAdmitted' = NoMessage
  /\ droppedOn' = Null
  /\ UNCHANGED <<viewerVars, outsideQueueViewer>>

\* the handshake of socket w succeeds: ws.onopen
WsOpen(w) ==
  /\ w \in 1..Len(sockets)
  /\ sockets[w].readyState = "CONNECTING"
  /\ sockets' = [sockets EXCEPT ![w].readyState = "OPEN"]
  /\ isConnected' = SetState(isConnected, TRUE)
  /\ isLoading' = SetState(isLoading, TRUE)
  /\ error' = SetState(error, NoError)
  /\ loadingTimers' = loadingTimers \cup {w}
  /\ loadingTimeoutRef' = w
  /\ UNCHANGED <<queueName, sortOrder, mounted, messages, wsRef,
                 reconnectTimeoutRef, reconnectTimers, admitted>>
  /\ redelivered' = FALSE
  /\ lastAdmitted' = NoMessage
  /\ droppedOn' = Null
  /\ UNCHANGED <<viewerVars, outsideQueueViewer>>

\* a handler that lets a payload through although it failed to parse
AdmitsUnparsed(w, data) == ~data.parses \/ data.queue = sockets[w].queue

\* data passes JSON.parse and the queue check of the closure of socket w
Admits(w, data) == data.parses /\ data.queue = sockets[w].queue

\* a message event on the open socket w: ws.onmessage
WsMessage(w, data) ==
  /\ w \in 1..Len(sockets)
  /\ sockets[w].readyState = "OPEN"
  /\ IF Admits(w, data)
       THEN /\ loadingTimers' = loadingTimers \ {loadingTimeoutRef}
            /\ loadingTimeoutRef' = Null
            /\ isLoading' = SetState(isLoading, FALSE)
            /\ messages' = SetState(messages, Updater(messages, data, sockets[w].sortOrder))
            /\ admitted' = SetState(admitted, admitted \cup {data.message.messageId})
            /\ redelivered' = SetState(FALSE, data.message.messageId \in admitted)
            /\ lastAdmitted' = SetState(NoMessage, NewMessage(data))
       ELSE /\ UNCHANGED <<loadingTimers, loadingTimeoutRef, isLoading, messages,
                           admitted>>
            /\ redelivered' = FALSE
            /\ lastAdmitted' = NoMessage
  /\ droppedOn' = (IF data.parses THEN droppedOn ELSE w)
  /\ UNCHANGED <<viewerVars, outsideQueueViewer>>
  /\ UNCHANGED <<queueName, sortOrder, mounted, isConnected, error, wsRef,
                 reconnectTimeoutRef, sockets, reconnectTimers>>

\* an onclose that also empties the Collection
OnCloseClearing(w) ==
  /\ sockets' = [sockets EXCEPT ![w].readyState = "CLOSED"]
  /\ isConnected' = SetState(isConnected, FALSE)
  /\ reconnectTimers' = reconnectTimers \cup {w}
  /\ reconnectTimeoutRef' = w
  /\ messages' = SetState(messages, <<>>)
  /\ UNCHANGED <<queueName, sortOrder, mounted, isLoading, wsRef,
                 loadingTimeoutRef, loadingTimers, admitted>>
  /\ redelivered' = FALSE
  /\ lastAdmitted' = NoMessage
  /\ droppedOn' = Null
  /\ UNCHANGED <<viewerVars, outsideQueueViewer>>

\* ws.onclose of socket w: schedules the reconnect timer of w's closure
OnClose(w) ==
  /\ sockets' = [sockets EXCEPT ![w].readyState = "CLOSED"]
  /\ isConnected' = SetState(isConnected, FALSE)
  /\ reconnectTimers' = reconnectTimers \cup {w}
  /\ reconnectTimeoutRef' = w
  /\ UNCHANGED <<queueName, sortOrder, mounted, messages, isLoading, wsRef,
                 loadingTimeoutRef, loadingTimers, admitted>>
  /\ redelivered' = FALSE
  /\ lastAdmitted' = NoMessage
  /\ droppedOn' = Null
  /\ UNCHANGED <<viewerVars, outsideQueueViewer>>

\* the connection of socket w is closed cleanly (by the server, or the closing
\* handshake started by ws.close() completes): the close event alone
WsClose(w) ==
  /\ w \in 1..Len(sockets)
  /\ sockets[w].readyState \in {"OPEN", "CLOSING"}
  /\ OnClose(w)
  /\ UNCHANGED error

\* a failure after which no reconnect is scheduled
WsFailWithoutReconnect(w) ==
  /\ w \in 1..Len(sockets)
  /\ sockets[w].readyState \in {"CONNECTING", "OPEN", "CLOSING"}
  /\ sockets' = [sockets EXCEPT ![w].readyState = "CLOSED"]
  /\ isConnected' = SetState(isConnected, FALSE)
  /\ error' = SetState(error, ConnError)
  /\ UNCHANGED <<queueName, sortOrder, mounted, messages, isLoading, wsRef,
                 reconnectTimeoutRef, reconnectTimers, loadingTimeoutRef,
                 loadingTimers, admitted>>
  /\ redelivered' = FALSE
  /\ lastAdmitted' = NoMessage
  /\ droppedOn' = Null
  /\ UNCHANGED <<viewerVars, outsideQueueViewer>>

\* the connection of socket w fails: the browser fires the error event and
\* then the close event in the same task (ws.onerror, then ws.onclose)
WsFail(w) ==
  /\ w \in 1..Len(sockets)
  /\ sockets[w].readyState \in {"CONNECTING", "OPEN", "CLOSING"}
  /\ OnClose(w)
  /\ error' = SetState(error, ConnError)

\* the reconnect timer scheduled by socket w fires: connect() of w's closure
ReconnectTimerFires(w) ==
  /\ w \in reconnectTimers
  /\ CanConnect(sockets[w].queue, sockets, wsRef)
  /\ reconnectTimers' = reconnectTimers \ {w}
  /\ sockets' = ConnectSockets(sockets[w].queue, sockets[w].sortOrder, sockets, wsRef)
  /\ wsRef' = ConnectRef(sockets[w].queue, sockets[w].sortOrder, sockets, wsRef)
  /\ UNCHANGED <<queueName, sortOrder, mounted, messages, isConnected, isLoading,
                 error, reconnectTimeoutRef, loadingTimeoutRef, loadingTimers,
                 admitted>>
  /\ redelivered' = FALSE
  /\ lastAdmitted' = NoMessage
  /\ droppedOn' = Null
  /\ UNCHANGED <<viewerVars, outsideQueueViewer>>

\* the loading timer scheduled by socket w fires: setIsLoading(false)
LoadingTimerFires(w) ==
  /\ w \in loadingTimers
  /\ loadingTimers' = loadingTimers \ {w}
  /\ isLoading' = SetState(isLoading, FALSE)
  /\ UNCHANGED <<queueName, sortOrder, mounted, messages, isConnected, error,
                 wsRef, reconnectTimeoutRef, loadingTimeoutRef, sockets,
                 reconnectTimers, admitted>>
  /\ redelivered' = FALSE
  /\ lastAdmitted' = NoMessage
  /\ droppedOn' = Null
  /\ UNCHANGED <<viewerVars, outsideQueueViewer>>

SocketIds == 1..MaxSockets

Next ==
  \/ \E q \in Queues \cup {NoQueue} : SelectQueue(q)
  \/ \E s \in SortOrders : SetSortOrder(s)
  \/ Unmount
  \/ ClearMessages
  \/ \E w \in SocketIds : WsOpen(w)
  \/ \E w \in SocketIds : \E data \in StreamData : WsMessage(w, data)
  \/ \E w \in SocketIds : WsClose(w)
  \/ \E w \in SocketIds : WsFail(w)
  \/ \E w \in SocketIds : ReconnectTimerFires(w)
  \/ \E w \in SocketIds : LoadingTimerFires(w)

Spec == Init /\ [][Next]_vars

\* ------------------------------------------------ the reducer near its limit
\* The Collection after n messages of queue q with ids above MaxMsgId and
\* SentTimestamp MaxMsgId arrived: n entries of equal time, in arrival order.
Prefilled(n, q) ==
  [i \in 1..n |->
     [messageId |-> MaxMsgId + i, SentTimestamp |-> MaxMsgId,
      receiptHandle |-> 1, queue |-> q]]

PrefillSizes == {0, Limit - 1}

\* The hook after "orders" was selected (and, for newest-first, the sort order
\* changed once), the socket opened and n messages arrived.
InitReducer ==
  \E n \in PrefillSizes, s \in SortOrders :
    /\ queueName = "orders"
    /\ sortOrder = s
    /\ mounted = TRUE
    /\ messages = Prefilled(n, "orders")
    /\ isConnected = TRUE
    /\ isLoading = (n = 0)
    /\ error = NoError
    /\ sockets =
         IF s = "oldest-first"
           THEN <<[queue |-> "orders", sortOrder |-> s, readyState |-> "OPEN"]>>
           ELSE <<[queue |-> "orders", sortOrder |-> "oldest-first",
                   readyState |-> "CLOSING"],
                  [queue |-> "orders", sortOrder |-> s, readyState |-> "OPEN"]>>
    /\ wsRef = Len(sockets)
    /\ reconnectTimeoutRef = Null
    /\ reconnectTimers = {}
    /\ loadingTimeoutRef = (IF n = 0 THEN Len(sockets) ELSE Null)
    /\ loadingTimers = (IF n = 0 THEN {Len(sockets)} ELSE {})
    /\ admitted = {}
    /\ redelivered = FALSE
    /\ lastAdmitted = NoMessage
    /\ droppedOn = Null
    /\ ServerInit
    /\ ViewerInit
    /\ PollInit
    /\ ApiInit
    /\ ItemsInit

\* the steps that read or write the Collection
NextReducer ==
  \/ \E q \in Queues \cup {NoQueue} : SelectQueue(q)
  \/ \E s \in SortOrders : SetSortOrder(s)
  \/ ClearMessages
  \/ \E w \in SocketIds : WsOpen(w)
  \/ \E w \in SocketIds : \E data \in EventData : WsMessage(w, data)

SpecReducer == InitReducer /\ [][NextReducer]_vars

\* ------------------------------------------- the reducer on equal sent-times
\* The hook after "orders" was selected and its socket opened, before any
\* message arrived.
InitTied ==
  /\ queueName = "orders"
  /\ sortOrder = "oldest-first"
  /\ mounted = TRUE
  /\ messages = <<>>
  /\ isConnected = TRUE
  /\ isLoading = TRUE
  /\ error = NoError
  /\ sockets = <<[queue |-> "orders", sortOrder |-> "oldest-first",
                  readyState |-> "OPEN"]>>
  /\ wsRef = 1
  /\ reconnectTimeoutRef = Null
  /\ reconnectTimers = {}
  /\ loadingTimeoutRef = 1
  /\ loadingTimers = {1}
  /\ admitted = {}
  /\ redelivered = FALSE
  /\ lastAdmitted = NoMessage
  /\ droppedOn = Null
  /\ ServerInit
  /\ ViewerInit
  /\ PollInit
  /\ ApiInit
  /\ ItemsInit

\* the steps that write the Collection, on a stream with equal sent-times
NextTied ==
  \/ \E s \in SortOrders : SetSortOrder(s)
  \/ ClearMessages
  \/ \E w \in SocketIds : WsOpen(w)
  \/ \E w \in SocketIds : \E data \in TiedData : WsMessage(w, data)

SpecTied == InitTied /\ [][NextTied]_vars

\* ------------------------------------------- QueueViewer: deleting a message
\* disabled={deletingMessageId === msg.messageId || isDeleted}, where
\* isDeleted = deletedMessageIds.includes(msg.messageId)
DeleteDisabled(id) ==
  \/ deletingMessageId = id
  \/ \E k \in 1..Len(deletedMessageIds) : deletedMessageIds[k] = id

\* the message list, with its delete buttons, is rendered
MessageListShown ==
  mounted /\ queueName # NoQueue /\ ~isLoading /\ messages # <<>>

\* the user clicks the enabled delete button of the i-th message card:
\* handleDeleteMessage up to its await. confirmed is the answer to
\* window.confirm; the request sent is identified by the message id.
HandleDeleteMessage(i, confirmed) ==
  /\ MessageListShown
  /\ i \in 1..Len(messages)
  /\ ~DeleteDisabled(messages[i].messageId)
  /\ CopiesIn(messages[i].messageId, deleteRequests) < MaxInFlight
  /\ IF confirmed
       THEN /\ deletingMessageId' = messages[i].messageId
            /\ deleteRequests' = deleteRequests (+) SetToBag({messages[i].messageId})
       ELSE UNCHANGED <<deletingMessageId, deleteRequests>>
  /\ UNCHANGED <<deletedMessageIds, hookVars, outsideQueueViewer>>

\* a completion that marks the message as deleted whatever the outcome
DeleteRespondsMarking(id, ok) ==
  /\ BagIn(id, deleteRequests)
  /\ deleteRequests' = deleteRequests (-) SetToBag({id})
  /\ deletedMessageIds' = SetState(deletedMessageIds, Append(deletedMessageIds, id))
  /\ deletingMessageId' = SetState(deletingMessageId, Null)
  /\ UNCHANGED <<hookVars, outsideQueueViewer>>

\* the DELETE request for message id completes: handleDeleteMessage after its
\* await. ok: the response arrived with response.ok; otherwise fetch threw
\* or the response was not ok, and the catch block only reports.
DeleteResponds(id, ok) ==
  /\ BagIn(id, deleteRequests)
  /\ deleteRequests' = deleteRequests (-) SetToBag({id})
  /\ deletedMessageIds' =
       IF ok THEN SetState(deletedMessageIds, Append(deletedMessageIds, id))
             ELSE deletedMessageIds
  /\ deletingMessageId' = SetState(deletingMessageId, Null)
  /\ UNCHANGED <<hookVars, outsideQueueViewer>>

\* QueueViewer on an open connection: messages arrive, the user deletes
\* messages and selects queues
NextViewer ==
  \/ \E q \in Queues \cup {NoQueue} : SelectQueue(q)
  \/ \E w \in SocketIds : WsOpen(w)
  \/ \E w \in SocketIds : \E data \in StreamData : WsMessage(w, data)
  \/ \E i \in 1..MaxMsgId : \E confirmed \in BOOLEAN : HandleDeleteMessage(i, confirmed)
  \/ \E id \in MsgIds : \E ok \in BOOLEAN : DeleteResponds(id, ok)

SpecViewer == InitTied /\ [][NextViewer]_vars

\* ------------------------------------------------------------- usePoll
Callbacks == 0..MaxCallbacks

Intervals == {DefaultInterval, 5000}

\* A render of usePoll(cb, iv, en) and the effects React runs after it: the
\* effect on [callback] stores the callback in the ref; the effect on
\* [interval, enabled] runs its cleanup (clearInterval of the id it holds)
\* and, unless enabled is false, sets a new interval.
PollRender(cb, iv, en) ==
  /\ pollMounted
  /\ <<cb, iv, en>> # <<callback, interval, enabled>>
  /\ callback' = cb
  /\ interval' = iv
  /\ enabled' = en
  /\ savedCallback' = cb
  /\ IF iv = interval /\ en = enabled
       THEN UNCHANGED <<intervalId, activeIntervals, intervalsCreated,
                        callbackAtCreation>>
       ELSE IF ~en
         THEN /\ activeIntervals' = activeIntervals \ {intervalId}
              /\ intervalId' = Null
              /\ UNCHANGED <<intervalsCreated, callbackAtCreation>>
         ELSE /\ intervalsCreated < MaxIntervals
              /\ intervalsCreated' = intervalsCreated + 1
              /\ intervalId' = intervalsCreated'
              /\ activeIntervals' =
                   (activeIntervals \ {intervalId}) \cup {intervalsCreated'}
              /\ callbackAtCreation' = cb
  /\ invoked' = Null
  /\ UNCHANGED <<pollMounted, outsidePoll>>

\* the component unmounts: the cleanup of the interval effect
PollUnmount ==
  /\ pollMounted
  /\ pollMounted' = FALSE
  /\ activeIntervals' = activeIntervals \ {intervalId}
  /\ invoked' = Null
  /\ UNCHANGED <<callback, interval, enabled, savedCallback, intervalId,
                 intervalsCreated, callbackAtCreation, outsidePoll>>

\* a tick that calls the callback of the render that set the interval
TickOfCreation(id) ==
  /\ id \in activeIntervals
  /\ invoked' = callbackAtCreation
  /\ UNCHANGED <<pollMounted, callback, interval, enabled, savedCallback,
                 intervalId, activeIntervals, intervalsCreated,
                 callbackAtCreation, outsidePoll>>

\* the interval id fires: tick calls savedCallback.current if there is one
Tick(id) ==
  /\ id \in activeIntervals
  /\ invoked' = savedCallback
  /\ UNCHANGED <<pollMounted, callback, interval, enabled, savedCallback,
                 intervalId, activeIntervals, intervalsCreated,
                 callbackAtCreation, outsidePoll>>

NextPoll ==
  \/ \E cb \in Callbacks, iv \in Intervals, en \in BOOLEAN : PollRender(cb, iv, en)
  \/ PollUnmount
  \/ \E id \in 1..MaxIntervals : Tick(id)

SpecPoll == Init /\ [][NextPoll]_vars

\* -------------------------------------------------------------- useApi
Endpoints == {NoEndpoint, "/queues"}

Results == 1..MaxResults

\* err.message of a response that is not ok, and of a fetch that threw
HttpError == "HTTP error! status: 500"

FetchError == "Failed to fetch"

Outcomes == {"ok", HttpError, FetchError}

\* fetchData() up to its await, for a hook whose state is (loading, err):
\* the request it starts (0 or 1), and the state after its setLoading(true)
\* and setError(null); it returns at once when there is no endpoint
FetchStarts == IF endpoint' = NoEndpoint THEN 0 ELSE 1

LoadingAfterStart(loading) == IF endpoint' = NoEndpoint THEN loading ELSE TRUE

ErrorAfterStart(err) == IF endpoint' = NoEndpoint THEN err ELSE NoError

\* The first render of useApi(e, options, imm) and its effect: loading starts
\* as immediate, and the effect calls fetchData() when immediate is true.
ApiMount(e, od, imm) ==
  /\ apiPhase = "initial"
  /\ apiPhase' = "mounted"
  /\ endpoint' = e
  /\ optionsDefault' = od
  /\ immediate' = imm
  /\ apiData' = Null
  /\ apiLoading' = (IF imm THEN LoadingAfterStart(imm) ELSE imm)
  /\ apiError' = NoError
  /\ apiRequests' = (IF imm THEN FetchStarts ELSE 0)
  /\ effectRequests' = apiRequests'
  /\ renderPending' = FALSE
  /\ UNCHANGED outsideApi

\* A re-render after a state update, and its effect. useCallback returns a
\* new fetchData when one of [backendUrl, endpoint, options] is not the
\* object of the previous render, which is so for options = {} on every
\* render; the effect on [fetchData, immediate] then calls fetchData() again.
ApiRender ==
  /\ apiPhase = "mounted"
  /\ renderPending
  /\ UNCHANGED <<apiPhase, endpoint, optionsDefault, immediate, apiData>>
  /\ IF optionsDefault /\ immediate
       THEN /\ apiRequests + FetchStarts <= MaxApiRequests
            /\ effectRequests + FetchStarts <= MaxApiRequests
            /\ apiRequests' = apiRequests + FetchStarts
            /\ effectRequests' = effectRequests + FetchStarts
            /\ apiLoading' = LoadingAfterStart(apiLoading)
            /\ apiError' = ErrorAfterStart(apiError)
            /\ renderPending' = (<<apiLoading', apiError'>> # <<apiLoading, apiError>>)
       ELSE /\ renderPending' = FALSE
            /\ UNCHANGED <<apiRequests, effectRequests, apiLoading, apiError>>
  /\ UNCHANGED outsideApi

\* the caller invokes refetch()
Refetch ==
  /\ apiPhase = "mounted"
  /\ UNCHANGED <<apiPhase, endpoint, optionsDefault, immediate, apiData,
                 effectRequests>>
  /\ apiRequests + FetchStarts <= MaxApiRequests
  /\ apiRequests' = apiRequests + FetchStarts
  /\ apiLoading' = LoadingAfterStart(apiLoading)
  /\ apiError' = ErrorAfterStart(apiError)
  /\ renderPending' =
       (renderPending \/ <<apiLoading', apiError'>> # <<apiLoading, apiError>>)
  /\ UNCHANGED outsideApi

\* A request completes: fetchData after its await. With outcome "ok" the
\* response was ok and response.json() gave result, an object that no earlier
\* state holds; otherwise outcome is the message of the error thrown.
ApiResponds(outcome, result) ==
  /\ apiRequests > 0
  /\ apiRequests' = apiRequests - 1
  /\ result # apiData
  /\ UNCHANGED <<apiPhase, endpoint, optionsDefault, immediate, effectRequests>>
  /\ IF apiPhase = "mounted"
       THEN /\ apiData' = (IF outcome = "ok" THEN result ELSE apiData)
            /\ apiError' = (IF outcome = "ok" THEN apiError ELSE outcome)
            /\ apiLoading' = FALSE
            /\ renderPending' =
                 (renderPending
                    \/ <<apiData', apiError', apiLoading'>> # <<apiData, apiError, apiLoading>>)
       ELSE UNCHANGED <<apiData, apiError, apiLoading, renderPending>>
  /\ UNCHANGED outsideApi

\* the component unmounts: React discards its state, requests in flight
\* complete later
ApiUnmount ==
  /\ apiPhase = "mounted"
  /\ apiPhase' = "unmounted"
  /\ apiData' = Null
  /\ apiLoading' = FALSE
  /\ apiError' = NoError
  /\ renderPending' = FALSE
  /\ UNCHANGED <<endpoint, optionsDefault, immediate, apiRequests,
                 effectRequests, outsideApi>>

NextApi ==
  \/ \E e \in Endpoints, od \in BOOLEAN, imm \in BOOLEAN : ApiMount(e, od, imm)
  \/ ApiRender
  \/ Refetch
  \/ \E outcome \in Outcomes, result \in Results : ApiResponds(outcome, result)
  \/ ApiUnmount

SpecApi == Init /\ [][NextApi]_vars

\* ---------------------------------------------------------- ItemViewer
Tables == {"orders-table", "users-table"}

ScanLimits == {25, DefaultScanLimit}

Queries == {1}

Modes == {"scan", "query"}

\* data.items of a response: undefined, or an array
Pages ==
  {[defined |-> FALSE, value |-> <<>>], [defined |-> TRUE, value |-> <<>>]}
    \cup {[defined |-> TRUE, value |-> <<i>>] : i \in 1..MaxItems}

\* data.items is undefined
NoPage == [defined |-> FALSE, value |-> <<>>]

\* data.lastEvaluatedKey of a response: undefined, null, or a key
ResponseKeys == {Absent, Null} \cup 1..MaxKey

\* data.items || []
ItemsOrEmpty(page) == IF page.defined THEN page.value ELSE <<>>

\* data.lastEvaluatedKey || null
KeyOrNull(key) == IF key \in {Absent, Null} THEN Null ELSE key

\* !!data.lastEvaluatedKey
Truthy(key) == key \notin {Absent, Null}

ScanFailed == "Failed to scan table"

\* a scan or query request: its endpoint and its exclusive_start_key
Request(kind, startKey) == [kind |-> kind, startKey |-> startKey]

\* fetchItems(startKey) and fetchQuery(queryParams, startKey) up to their
\* await: setIsLoading(true), setError(null), and the request
FetchStart(kind, startKey) ==
  /\ BagCardinality(itemRequests) < MaxItemRequests
  /\ itemsLoading' = TRUE
  /\ itemsError' = NoError
  /\ itemRequests' = itemRequests (+) SetToBag({Request(kind, startKey)})

\* the fetch handleRefresh and loadMore choose for a render with mode m and
\* current query q
FetchKind(m, q) == IF m = "query" /\ q # Null THEN "query" ELSE "scan"

\* handleRefresh() of a render with mode m and current query q
Refresh(m, q) ==
  /\ lastEvaluatedKey' = Null
  /\ hasMore' = FALSE
  /\ FetchStart(FetchKind(m, q), Null)

\* the parent renders ItemViewer with another table (or none): the effect on
\* [tableName] resets the list and fetches the table info and the first page
SelectTable(t) ==
  /\ t # tableName
  /\ tableName' = t
  /\ IF t # NoTable
       THEN /\ items' = <<>>
            /\ lastEvaluatedKey' = Null
            /\ hasMore' = FALSE
            /\ tableInfoRequests < MaxItemRequests
            /\ tableInfoRequests' = tableInfoRequests + 1
            /\ FetchStart("scan", Null)
       ELSE UNCHANGED <<items, lastEvaluatedKey, hasMore, tableInfoRequests,
                        itemsLoading, itemsError, itemRequests>>
  /\ UNCHANGED <<mode, tableInfo, scanLimit, showQueryBuilder, currentQuery,
                 itemDeletes, outsideItems>>

\* fetchTableInfo after its await
TableInfoResponds(ok) ==
  /\ tableInfoRequests > 0
  /\ tableInfoRequests' = tableInfoRequests - 1
  /\ tableInfo' = (tableInfo \/ ok)
  /\ itemsError' = (IF ok THEN itemsError ELSE "Failed to fetch table info")
  /\ UNCHANGED <<tableName, mode, items, itemsLoading, lastEvaluatedKey, hasMore,
                 scanLimit, showQueryBuilder, currentQuery, itemRequests,
                 itemDeletes, outsideItems>>

\* the user picks another limit: the effect on [scanLimit] calls handleRefresh
SetScanLimit(l) ==
  /\ tableName # NoTable
  /\ l # scanLimit
  /\ scanLimit' = l
  /\ Refresh(mode, currentQuery)
  /\ UNCHANGED <<tableName, mode, items, tableInfo, showQueryBuilder,
                 currentQuery, tableInfoRequests, itemDeletes, outsideItems>>

\* the user clicks the enabled refresh button: handleRefresh
HandleRefresh ==
  /\ tableName # NoTable
  /\ ~itemsLoading
  /\ ~(mode = "query" /\ currentQuery = Null)
  /\ Refresh(mode, currentQuery)
  /\ UNCHANGED <<tableName, mode, items, tableInfo, scanLimit, showQueryBuilder,
                 currentQuery, tableInfoRequests, itemDeletes, outsideItems>>

\* the item list is rendered
ItemListShown == tableName # NoTable /\ items # <<>> /\ ~showQueryBuilder

\* the user clicks the enabled Load More button: loadMore
LoadMore ==
  /\ ItemListShown
  /\ hasMore
  /\ ~itemsLoading
  /\ IF hasMore /\ lastEvaluatedKey # Null
       THEN FetchStart(FetchKind(mode, currentQuery), lastEvaluatedKey)
       ELSE UNCHANGED <<itemsLoading, itemsError, itemRequests>>
  /\ UNCHANGED <<tableName, mode, items, tableInfo, lastEvaluatedKey, hasMore,
                 scanLimit, showQueryBuilder, currentQuery, tableInfoRequests,
                 itemDeletes, outsideItems>>

\* the user clicks a mode tab: handleModeChange
HandleModeChange(m) ==
  /\ tableName # NoTable
  /\ mode' = m
  /\ items' = <<>>
  /\ lastEvaluatedKey' = Null
  /\ hasMore' = FALSE
  /\ currentQuery' = Null
  /\ showQueryBuilder' = (m = "query")
  /\ IF m = "query"
       THEN /\ itemsError' = NoError
            /\ UNCHANGED <<itemsLoading, itemRequests>>
       ELSE FetchStart("scan", Null)
  /\ UNCHANGED <<tableName, tableInfo, scanLimit, tableInfoRequests,
                 itemDeletes, outsideItems>>

\* QueryBuilder submits a query: handleQuery
HandleQuery(q) ==
  /\ tableName # NoTable
  /\ mode = "query"
  /\ showQueryBuilder
  /\ tableInfo
  /\ currentQuery' = q
  /\ showQueryBuilder' = FALSE
  /\ lastEvaluatedKey' = Null
  /\ hasMore' = FALSE
  /\ FetchStart("query", Null)
  /\ UNCHANGED <<tableName, mode, items, tableInfo, scanLimit,
                 tableInfoRequests, itemDeletes, outsideItems>>

\* "New Query" (setShowQueryBuilder(true)) and handleCancelQuery
SetShowQueryBuilder(show) ==
  /\ tableName # NoTable
  /\ mode = "query"
  /\ show # showQueryBuilder
  /\ show => currentQuery # Null
  /\ ~show => tableInfo
  /\ showQueryBuilder' = show
  /\ UNCHANGED <<tableName, mode, items, tableInfo, itemsLoading, itemsError,
                 lastEvaluatedKey, hasMore, scanLimit, currentQuery,
                 itemRequests, tableInfoRequests, itemDeletes, outsideItems>>

\* the user clicks the delete button of an item: handleDeleteItem up to its
\* await (nothing happens when the confirmation is declined)
HandleDeleteItem(confirmed) ==
  /\ ItemListShown
  /\ BagCardinality(itemDeletes) < MaxItemRequests - 1
  /\ itemDeletes' =
       IF confirmed
         THEN itemDeletes (+) SetToBag({[mode |-> mode, currentQuery |-> currentQuery]})
         ELSE itemDeletes
  /\ UNCHANGED <<tableName, mode, items, tableInfo, itemsLoading, itemsError,
                 lastEvaluatedKey, hasMore, scanLimit, showQueryBuilder,
                 currentQuery, itemRequests, tableInfoRequests, outsideItems>>

\* handleDeleteItem after its await: on success the handleRefresh of the
\* render whose handler was clicked
DeleteItemResponds(closure, ok) ==
  /\ BagIn(closure, itemDeletes)
  /\ itemDeletes' = itemDeletes (-) SetToBag({closure})
  /\ IF ok
       THEN Refresh(closure.mode, closure.currentQuery)
       ELSE UNCHANGED <<lastEvaluatedKey, hasMore, itemsLoading, itemsError,
                        itemRequests>>
  /\ UNCHANGED <<tableName, mode, items, tableInfo, scanLimit, showQueryBuilder,
                 currentQuery, tableInfoRequests, outsideItems>>

\* a completion that replaces the items whatever the start key was
ItemsRespondReplacing(req, ok, page, key) ==
  /\ BagIn(req, itemRequests)
  /\ itemRequests' = itemRequests (-) SetToBag({req})
  /\ IF ok
       THEN /\ items' = ItemsOrEmpty(page)
            /\ lastEvaluatedKey' = KeyOrNull(key)
            /\ hasMore' = Truthy(key)
            /\ UNCHANGED itemsError
       ELSE /\ itemsError' = ScanFailed
            /\ UNCHANGED <<items, lastEvaluatedKey, hasMore>>
  /\ itemsLoading' = FALSE
  /\ UNCHANGED <<tableName, mode, tableInfo, scanLimit, showQueryBuilder,
                 currentQuery, tableInfoRequests, itemDeletes, outsideItems>>

\* A scan or query request completes: fetchItems / fetchQuery after their
\* await. ok: the response was ok and carried (page, key); otherwise the
\* catch block sets the error.
ItemsRespond(req, ok, page, key) ==
  /\ BagIn(req, itemRequests)
  /\ itemRequests' = itemRequests (-) SetToBag({req})
  /\ IF ok
       THEN /\ req.startKey # Null
                 => Len(items) + Len(ItemsOrEmpty(page)) <= MaxItems
            /\ items' = IF req.startKey # Null
                           THEN items \o ItemsOrEmpty(page)
                           ELSE ItemsOrEmpty(page)
            /\ lastEvaluatedKey' = KeyOrNull(key)
            /\ hasMore' = Truthy(key)
            /\ UNCHANGED itemsError
       ELSE /\ itemsError' = ScanFailed
            /\ UNCHANGED <<items, lastEvaluatedKey, hasMore>>
  /\ itemsLoading' = FALSE
  /\ UNCHANGED <<tableName, mode, tableInfo, scanLimit, showQueryBuilder,
                 currentQuery, tableInfoRequests, itemDeletes, outsideItems>>

Requests == {Request(kind, startKey) : kind \in Modes, startKey \in 0..MaxKey}

Closures == [mode : Modes, currentQuery : {Null} \cup Queries]

NextItems ==
  \/ \E t \in Tables \cup {NoTable} : SelectTable(t)
  \/ \E ok \in BOOLEAN : TableInfoResponds(ok)
  \/ \E l \in ScanLimits : SetScanLimit(l)
  \/ HandleRefresh
  \/ LoadMore
  \/ \E m \in Modes : HandleModeChange(m)
  \/ \E q \in Queries : HandleQuery(q)
  \/ \E show \in BOOLEAN : SetShowQueryBuilder(show)
  \/ \E confirmed \in BOOLEAN : HandleDeleteItem(confirmed)
  \/ \E closure \in Closures, ok \in BOOLEAN : DeleteItemResponds(closure, ok)
  \/ \E req \in Requests, page \in Pages, key \in ResponseKeys :
       ItemsRespond(req, TRUE, page, key)
  \/ \E req \in Requests : ItemsRespond(req, FALSE, NoPage, Absent)

SpecItems == Init /\ [][NextItems]_vars

\* ------------------------------------------------ the end of loading
\* The steps that create, open and close sockets and that write isLoading or
\* the loading timers. A pending timer of setTimeout fires unless it is
\* cleared first: weak fairness of each loading timer.
NextLoading ==
  \/ \E q \in Queues \cup {NoQueue} : SelectQueue(q)
  \/ Unmount
  \/ \E w \in SocketIds : WsOpen(w)
  \/ \E w \in SocketIds : \E data \in StreamData : WsMessage(w, data)
  \/ \E w \in SocketIds : WsClose(w)
  \/ \E w \in SocketIds : WsFail(w)
  \/ \E w \in SocketIds : ReconnectTimerFires(w)
  \/ \E w \in SocketIds : LoadingTimerFires(w)

SpecLoading ==
  /\ Init
  /\ [][NextLoading]_vars
  /\ \A w \in SocketIds : WF_vars(LoadingTimerFires(w))

\* ------------------------------------------------------------ the server
\* The Channel of one queue: the registry of attached connections, the polling
\* loop and the queue in the backing store. Channels of different queues share
\* no state. A step is one serialized registry operation, one iteration of
\* the polling loop, or one operation on the backing store.

\* nothing was published or sent to a connection on this step
NothingPublished ==
  /\ published' = {}
  /\ delivered' = [s \in Subscribers |-> EmptyBag]

\* a client connects to /ws/messages/{queue_name}: attach, which starts the
\* polling loop when the Channel did not exist
Attach(s) ==
  /\ s \notin subscribers
  /\ subscribers' = subscribers \cup {s}
  /\ polling' = TRUE
  /\ NothingPublished
  /\ UNCHANGED <<store, outsideServer>>

\* a detach that leaves the polling loop as it is
DetachKeepsPolling(s) ==
  /\ s \in subscribers
  /\ subscribers' = subscribers \ {s}
  /\ NothingPublished
  /\ UNCHANGED <<polling, store, outsideServer>>

\* the connection of a client closes: detach, which stops the polling loop
\* when it removed the last subscriber
Detach(s) ==
  /\ s \in subscribers
  /\ subscribers' = subscribers \ {s}
  /\ polling' = (subscribers' # {})
  /\ NothingPublished
  /\ UNCHANGED <<store, outsideServer>>

\* the message ids in the queue, and those a poll can receive
Stored == {id \in MsgIds : store[id].status \in {"visible", "hidden"}}

Visible == {id \in MsgIds : store[id].status = "visible"}

\* a publish that sends every event twice
PublishTwice(events) ==
  /\ published' = events
  /\ delivered' = [s \in Subscribers |->
                     IF s \in subscribers
                       THEN SetToBag(events) (+) SetToBag(events)
                       ELSE EmptyBag]

\* publish: one copy of every event to every connection attached right now
Publish(events) ==
  /\ published' = events
  /\ delivered' = [s \in Subscribers |->
                     IF s \in subscribers THEN SetToBag(events) ELSE EmptyBag]

\* a receive that takes the messages out of the queue
ReceivedAndDeleted(batch) ==
  [id \in MsgIds |->
     IF id \in batch
       THEN [status |-> "deleted", receives |-> store[id].receives + 1]
       ELSE store[id]]

\* the store after the messages of batch were received once more
Received(batch) ==
  [id \in MsgIds |->
     IF id \in batch
       THEN [status |-> "hidden", receives |-> store[id].receives + 1]
       ELSE store[id]]

\* one iteration of the polling loop: the long poll returns a batch of
\* visible messages (none when the wait ran out), which become hidden for
\* the visibility timeout, and each of them is published
Poll(batch) ==
  /\ polling
  /\ batch \subseteq Visible
  /\ Cardinality(batch) <= MaxNumberOfMessages
  /\ \A id \in batch : store[id].receives < MaxReceipt
  /\ store' = Received(batch)
  /\ Publish({Event(id, store'[id].receives) : id \in batch})
  /\ UNCHANGED <<subscribers, polling, outsideServer>>

\* the poll fails (backing store unreachable): the loop retries later
PollFails ==
  /\ polling
  /\ NothingPublished
  /\ UNCHANGED <<subscribers, polling, store, outsideServer>>

\* a producer sends message id to the queue
SendMessage(id) ==
  /\ store[id].status = "unsent"
  /\ store' = [store EXCEPT ![id].status = "visible"]
  /\ NothingPublished
  /\ UNCHANGED <<subscribers, polling, outsideServer>>

\* the visibility timeout of a received message runs out
VisibilityTimeout(id) ==
  /\ store[id].status = "hidden"
  /\ store' = [store EXCEPT ![id].status = "visible"]
  /\ NothingPublished
  /\ UNCHANGED <<subscribers, polling, outsideServer>>

\* DELETE /queue/{queue_name}/message with receipt_handle: the handle of the
\* latest receive deletes the message; an older handle may or may not
DeleteMessage(id, receipt, deletes) ==
  /\ id \in Stored
  /\ receipt \in 1..store[id].receives
  /\ receipt = store[id].receives => deletes
  /\ store' = IF deletes THEN [store EXCEPT ![id].status = "deleted"] ELSE store
  /\ NothingPublished
  /\ UNCHANGED <<subscribers, polling, outsideServer>>

NextServer ==
  \/ \E s \in Subscribers : Attach(s)
  \/ \E s \in Subscribers : Detach(s)
  \/ \E batch \in SUBSET MsgIds : Poll(batch)
  \/ PollFails
  \/ \E id \in MsgIds : SendMessage(id)
  \/ \E id \in MsgIds : VisibilityTimeout(id)
  \/ \E id \in MsgIds, receipt \in Receipts, deletes \in BOOLEAN :
       DeleteMessage(id, receipt, deletes)

SpecServer == Init /\ [][NextServer]_vars

\* ------------------------------------------------------------ properties
TypeOK ==
  /\ queueName \in Queues \cup {NoQueue}
  /\ sortOrder \in SortOrders
  /\ mounted \in BOOLEAN
  /\ isConnected \in BOOLEAN
  /\ isLoading \in BOOLEAN
  /\ error \in {NoError, ConnError}
  /\ wsRef \in 0..Len(sockets)
  /\ reconnectTimers \subseteq 1..Len(sockets)
  /\ loadingTimers \subseteq 1..Len(sockets)
  /\ Len(sockets) <= MaxSockets
  /\ droppedOn \in 0..Len(sockets)

Positions(arr, id) == {i \in 1..Len(arr) : arr[i].messageId = id}

Ids(arr) == {arr[i].messageId : i \in 1..Len(arr)}

\* C1: every message held in the Collection is tagged with the currently
\* selected queue; after a switch from A to B no message tagged A is admitted.
OnlySelectedQueueAdmitted ==
  mounted => \A i \in 1..Len(messages) : messages[i].queue = queueName

\* C2: the Collection never contains two entries with the same messageId.
NoDuplicateIds == Cardinality(Ids(messages)) = Len(messages)

\* C2 witness: a message was delivered again while another entry is held.
RedeliveredAmongOthers ==
  /\ Len(messages) >= 2
  /\ lastAdmitted # NoMessage
  /\ redelivered
  /\ Positions(messages, lastAdmitted.messageId) # {}

\* the last step delivered, for the second time or later, a message id that
\* the hook admitted for the selected queue
SecondDelivery == lastAdmitted # NoMessage /\ redelivered

\* C3 as stated: after the second delivery of m the Collection contains exactly
\* one entry for m, carrying the payload of the latest delivery.
ExactlyOneLatestEntry ==
  SecondDelivery =>
    /\ Cardinality(Positions(messages, lastAdmitted.messageId)) = 1
    /\ \A i \in Positions(messages, lastAdmitted.messageId) :
         messages[i] = lastAdmitted

\* C3 amended: after the second delivery of m the Collection contains at most
\* one entry for m, it carries the payload of the latest delivery, and it is
\* there whenever m was held before the delivery or fewer than Limit entries
\* were held (otherwise the truncation may drop m at once).
LastWriteWinsUpsert ==
  [][SecondDelivery' =>
       /\ Cardinality(Positions(messages', lastAdmitted'.messageId)) <= 1
       /\ \A i \in Positions(messages', lastAdmitted'.messageId) :
            messages'[i] = lastAdmitted'
       /\ (Positions(messages, lastAdmitted'.messageId) # {} \/ Len(messages) < Limit)
            => Positions(messages', lastAdmitted'.messageId) # {}]_vars

\* C3 witness: a second delivery replaced the stored payload of m.
SecondDeliveryReplaced ==
  /\ SecondDelivery
  /\ \E i \in 1..Len(messages) :
       messages[i] = lastAdmitted /\ lastAdmitted.receiptHandle = 2

\* C4: the Collection holds at most 100 messages.
AtMostLimit == Len(messages) <= Limit

\* C4 witness: the Collection is full and the message just delivered was
\* cut off by the truncation.
FullAndTruncated ==
  /\ Len(messages) = Limit
  /\ lastAdmitted # NoMessage
  /\ Positions(messages, lastAdmitted.messageId) = {}

\* C5: when admitting a message makes the Collection exceed 100 entries, the
\* evicted entry is an oldest one: no kept entry has a smaller sent-time.
EvictsOldest ==
  [][(lastAdmitted' # NoMessage /\ Len(messages) = Limit
        /\ Positions(messages, lastAdmitted'.messageId) = {})
      => \A e \in {messages[i] : i \in 1..Len(messages)} \cup {lastAdmitted'} :
           e.messageId \notin Ids(messages')
             => \A k \in 1..Len(messages') : ParseSent(e) <= ParseSent(messages'[k])]_vars

\* the entries of arr are ordered by sent-time as the sort order asks
Ordered(arr, order) ==
  \A i \in 1..(Len(arr) - 1) :
    IF order = "newest-first"
      THEN ParseSent(arr[i]) >= ParseSent(arr[i + 1])
      ELSE ParseSent(arr[i]) <= ParseSent(arr[i + 1])

\* C6: after every admitted message the Collection is ordered by sent-time,
\* ascending for oldest-first and descending for newest-first.
OrderedBySortOrder ==
  (mounted /\ lastAdmitted # NoMessage) => Ordered(messages, sortOrder)

\* C7: when the backoff timer of a connection to the selected queue fires, a
\* new connection attempt to that queue is made (unless the hook already
\* holds an open connection to it), after any number of failures.
ReconnectsAfterBackoff ==
  [][\A w \in SocketIds :
       (mounted /\ w \in reconnectTimers /\ sockets[w].queue = queueName
          /\ ReconnectTimerFires(w))
       => \/ /\ Len(sockets') = Len(sockets) + 1
             /\ sockets'[Len(sockets')].queue = queueName
          \/ /\ wsRef # Null
             /\ sockets[wsRef].queue = queueName
             /\ sockets[wsRef].readyState = "OPEN"]_vars

\* the hook is torn down: the component unmounted or the queue was deselected
TornDown == ~mounted \/ queueName = NoQueue

\* C8: after teardown (unmount or deselection) no reconnection timer and no
\* initial-wait timer fires and no new connection is opened.
NoActivityAfterTeardown ==
  [][/\ (TornDown /\ TornDown') => Len(sockets') = Len(sockets)
     /\ TornDown => \A w \in SocketIds :
                      ~ReconnectTimerFires(w) /\ ~LoadingTimerFires(w)]_vars

\* C9: after the selection changed from A to B no connection to A is opened
\* again: every new connection is one to the selected queue.
NewConnectionsToSelectedQueue ==
  [][Len(sockets') > Len(sockets)
       => sockets'[Len(sockets')].queue = queueName']_vars

\* C10: at most one connection is connecting or open.
SingleActiveConnection ==
  Cardinality({w \in 1..Len(sockets) :
                 sockets[w].readyState \in {"CONNECTING", "OPEN"}}) <= 1

\* socket w is connecting or open in socks
Active(socks, w) == socks[w].readyState \in {"CONNECTING", "OPEN"}

\* C11: when the selected queue changes and the connection for the new queue
\* is opened, every prior connection for a different queue has been closed
\* and the Collection is empty.
ClosesAndClearsBeforeConnecting ==
  [][(queueName' # queueName /\ Len(sockets') > Len(sockets))
       => /\ messages' = <<>>
          /\ \A w \in 1..Len(sockets) :
               sockets[w].queue # queueName' => ~Active(sockets', w)]_vars

\* C12: while the selection (queue and sort order) is unchanged, a step on
\* which a connection closes or a connection attempt starts leaves the
\* Collection as it was.
ReconnectPreservesCollection ==
  [][(/\ queueName' = queueName
      /\ sortOrder' = sortOrder
      /\ \/ Len(sockets') > Len(sockets)
         \/ \E w \in 1..Len(sockets) :
              sockets[w].readyState # "CLOSED" /\ sockets'[w].readyState = "CLOSED")
       => messages' = messages]_vars

\* C12 witness: the connection to the selected queue closed and the hook is
\* reconnecting to the same queue with messages still in the Collection.
ReconnectingWithMessages ==
  /\ mounted
  /\ Len(messages) > 0
  /\ \A i \in 1..Len(messages) : messages[i].queue = queueName
  /\ wsRef # Null
  /\ sockets[wsRef].readyState = "CONNECTING"
  /\ sockets[wsRef].queue = queueName
  /\ \E w \in 1..(wsRef - 1) :
       sockets[w].queue = queueName /\ sockets[w].readyState = "CLOSED"

\* C13: a message event whose queue tag differs from the selected queue
\* leaves the Collection, the loading flag and the pending initial-wait
\* timer as they were.
ForeignQueueMessageDropped ==
  [][\A w \in SocketIds, data \in EventData :
       (/\ mounted
        /\ queueName # NoQueue
        /\ data.parses
        /\ data.queue # queueName
        /\ WsMessage(w, data))
         => UNCHANGED <<messages, isLoading, loadingTimers, loadingTimeoutRef>>]_vars

\* C14: Clear empties the Collection and leaves the connection, the
\* connected, loading and error flags and the pending timers as they were.
ClearOnlyEmptiesCollection ==
  [][ClearMessages
       => /\ messages' = <<>>
          /\ UNCHANGED <<queueName, sortOrder, mounted, isConnected, isLoading,
                         error, wsRef, sockets, reconnectTimeoutRef,
                         reconnectTimers, loadingTimeoutRef, loadingTimers>>]_vars

\* C14 witness: the Collection was cleared (messages were admitted since the
\* effect ran, none is held) and the hook is disconnected with the error
\* flag set and its reconnect timer pending.
ClearedWhileReconnecting ==
  /\ mounted
  /\ messages = <<>>
  /\ admitted # {}
  /\ error = ConnError
  /\ ~isConnected
  /\ reconnectTimeoutRef \in reconnectTimers

\* C15: a payload that fails to parse changes neither the Collection nor the
\* connection nor any flag or timer, the socket that dropped it stays open,
\* and a later well-formed event for its queue on that socket is merged into
\* the Collection (it is there unless the Collection was already full).
MalformedPayloadDropped ==
  [][/\ \A w \in SocketIds :
          WsMessage(w, MalformedData)
            => /\ UNCHANGED <<messages, sockets, wsRef, isConnected, isLoading,
                              error, reconnectTimers, loadingTimers>>
               /\ sockets'[w].readyState = "OPEN"
     /\ \A d \in EventData :
          (/\ droppedOn # Null
           /\ mounted
           /\ d.parses
           /\ d.queue = sockets[droppedOn].queue
           /\ lastAdmitted' = NewMessage(d)
           /\ WsMessage(droppedOn, d))
            => /\ sockets'[droppedOn].readyState = "OPEN"
               /\ Len(messages) < Limit
                    => \E i \in 1..Len(messages') : messages'[i] = NewMessage(d)]_vars

\* C15 witness: after a payload that failed to parse was dropped, the same
\* socket delivered a well-formed message, which is in the Collection.
AdmittedAfterMalformed ==
  /\ droppedOn # Null
  /\ sockets[droppedOn].readyState = "OPEN"
  /\ lastAdmitted # NoMessage
  /\ lastAdmitted.queue = sockets[droppedOn].queue
  /\ \E i \in 1..Len(messages) : messages[i] = lastAdmitted

\* C16: a connection failure (error, then close) sets the error flag, marks
\* the hook disconnected and leaves a reconnect timer of the failed socket
\* pending; the opening of a connection clears the error flag.
ErrorKeepsReconnecting ==
  [][/\ \A w \in SocketIds :
          (mounted /\ WsFail(w))
            => /\ error' = ConnError
               /\ ~isConnected'
               /\ w \in reconnectTimers'
               /\ reconnectTimeoutRef' = w
     /\ \A w \in SocketIds :
          (mounted /\ WsOpen(w)) => error' = NoError]_vars

\* C16 witness: the connection to the selected queue failed; the error flag
\* is set, the hook is disconnected and the reconnect timer is pending.
FailedAndReconnectPending ==
  /\ mounted
  /\ queueName # NoQueue
  /\ error = ConnError
  /\ ~isConnected
  /\ wsRef # Null
  /\ sockets[wsRef].readyState = "CLOSED"
  /\ sockets[wsRef].queue = queueName
  /\ reconnectTimeoutRef = wsRef
  /\ wsRef \in reconnectTimers

\* C17: whenever the hook is loading, loading ends: isLoading becomes false
\* (by an admitted message, by the initial-wait timer or by a new selection)
\* or the component unmounts.
LoadingEnds == (mounted /\ isLoading) ~> (~mounted \/ ~isLoading)

\* C17 witness: the connection to the selected queue is open, no message was
\* admitted, and loading has ended because the initial-wait timer of that
\* connection fired (the ref still holds it, and it is no longer pending).
LoadingEndedByTimer ==
  /\ mounted
  /\ wsRef # Null
  /\ sockets[wsRef].readyState = "OPEN"
  /\ sockets[wsRef].queue = queueName
  /\ admitted = {}
  /\ loadingTimeoutRef = wsRef
  /\ wsRef \notin loadingTimers
  /\ ~isLoading

\* C18: the polling loop of the Channel is running if and only if at least
\* one subscriber is attached.
PollingIffSubscribed == polling <=> subscribers # {}

\* C18 witness: the loop ran (it received a message) and has been stopped by
\* the detach of the last subscriber.
StoppedAfterLastDetach ==
  /\ ~polling
  /\ subscribers = {}
  /\ \E id \in MsgIds : store[id].receives > 0

\* C19: of every event published on a step, each connection attached at that
\* moment is sent exactly one copy and no other connection any; nothing but
\* the events published on the step is ever sent (a connection attached
\* later is sent none of the earlier events), and the events of a step are
\* new receives, not published before.
OneCopyToAttachedOnly ==
  [][/\ \A e \in published' : \A s \in Subscribers :
          CopiesIn(e, delivered'[s]) = (IF s \in subscribers THEN 1 ELSE 0)
     /\ \A s \in Subscribers : BagToSet(delivered'[s]) \subseteq published'
     /\ \A e \in published' :
          e.receiptHandle = store[e.messageId].receives + 1]_vars

\* C19 witness: an event was just published while one connection was
\* attached and another was not.
PublishedToSome ==
  /\ published # {}
  /\ \E s \in subscribers : \E e \in published : BagIn(e, delivered[s])
  /\ subscribers # Subscribers

\* C20: an iteration of the polling loop takes no message out of the queue;
\* a message leaves the queue only on a delete by one of its receipt handles;
\* a message that was received and not deleted is visible again once its
\* visibility timeout ran out.
OnlyDeleteRemoves ==
  [][/\ \A batch \in SUBSET MsgIds : Poll(batch) => Stored' = Stored
     /\ \A id \in Stored \ Stored' :
          \E receipt \in 1..store[id].receives : DeleteMessage(id, receipt, TRUE)
     /\ \A id \in MsgIds : VisibilityTimeout(id) => id \in Visible']_vars

\* C20 witness: a message was received twice and is still in the queue,
\* visible to the next poll.
ReceivedTwiceStillVisible ==
  \E id \in Visible : store[id].receives >= 2

\* no event of a socket and no timer is outstanding: every socket but the one
\* the hook holds is closed, and no timer is pending
Quiescent ==
  /\ \A w \in 1..Len(sockets) : w # wsRef => sockets[w].readyState = "CLOSED"
  /\ reconnectTimers = {}
  /\ loadingTimers = {}

\* C21: whenever the connection of the selected queue is open and nothing is
\* outstanding, the hook reports isConnected = TRUE.
ConnectedWhenOpen ==
  (/\ mounted
   /\ queueName # NoQueue
   /\ wsRef # Null
   /\ sockets[wsRef].readyState = "OPEN"
   /\ sockets[wsRef].queue = queueName
   /\ Quiescent)
    => isConnected

\* C22: a change of the sort order alone empties the Collection, leaves no
\* connection opened before it connecting or open, and opens a new connection
\* to the same queue that sorts in the new order.
SortChangeReconnects ==
  [][\A s \in SortOrders :
       SetSortOrder(s)
         => /\ messages' = <<>>
            /\ queueName' = queueName
            /\ Len(sockets') = Len(sockets) + 1
            /\ sockets'[Len(sockets')] = NewSocket(queueName, s)
            /\ wsRef' = Len(sockets')
            /\ \A w \in 1..Len(sockets) : ~Active(sockets', w)]_vars

\* C23: entries of equal sent-time are ordered by arrival, in both sort
\* orders: two such entries that are both kept stay in the order they had, a
\* message delivered again keeps its place among them, and a message not held
\* before goes behind every held entry of its sent-time.
TiesKeepArrivalOrder ==
  [][/\ \A i, j \in 1..Len(messages) :
          (/\ i < j
           /\ ParseSent(messages[i]) = ParseSent(messages[j])
           /\ IndexOf(messages', messages[i].messageId) # 0
           /\ IndexOf(messages', messages[j].messageId) # 0)
            => IndexOf(messages', messages[i].messageId)
                 < IndexOf(messages', messages[j].messageId)
     /\ (/\ lastAdmitted' # NoMessage
         /\ IndexOf(messages, lastAdmitted'.messageId) = 0
         /\ IndexOf(messages', lastAdmitted'.messageId) # 0)
          => \A k \in 1..Len(messages') :
               (/\ ParseSent(messages'[k]) = ParseSent(lastAdmitted')
                /\ messages'[k].messageId # lastAdmitted'.messageId)
                 => k < IndexOf(messages', lastAdmitted'.messageId)]_vars

\* C23 witness: under newest-first, message 1 was delivered again while the
\* Collection holds it before message 2 of the same sent-time, and it is
\* still before it, carrying the new payload.
RedeliveredKeepsTiePosition ==
  /\ sortOrder = "newest-first"
  /\ redelivered
  /\ lastAdmitted.messageId = 1
  /\ lastAdmitted.receiptHandle = 2
  /\ IndexOf(messages, 1) # 0
  /\ IndexOf(messages, 2) # 0
  /\ IndexOf(messages, 1) < IndexOf(messages, 2)
  /\ messages[IndexOf(messages, 1)] = lastAdmitted
  /\ ParseSent(messages[IndexOf(messages, 2)]) = ParseSent(lastAdmitted)

\* C30: at most one reconnect timer is pending, and a pending reconnect
\* timer is the one reconnectTimeoutRef holds (the one a clearTimeout of the
\* effect or of the cleanup would cancel).
SingleReferencedReconnectTimer ==
  /\ Cardinality(reconnectTimers) <= 1
  /\ \A w \in reconnectTimers : reconnectTimeoutRef = w

\* C24: a message id is added to deletedMessageIds only by the completion of
\* a DELETE request for that message that succeeded; a failed request and a
\* declined confirmation leave deletedMessageIds as it was; a completed
\* request leaves deletingMessageId null, and a declined confirmation leaves
\* it as it was.
DeletedOnlyAfterSuccess ==
  [][/\ \A id \in MsgIds : \A ok \in BOOLEAN :
          (mounted /\ DeleteResponds(id, ok))
            => /\ deletingMessageId' = Null
               /\ deletedMessageIds' =
                    IF ok THEN Append(deletedMessageIds, id) ELSE deletedMessageIds
     /\ \A i \in 1..MaxMsgId :
          HandleDeleteMessage(i, FALSE)
            => UNCHANGED <<deletedMessageIds, deletingMessageId, deleteRequests>>
     /\ (deletedMessageIds' # deletedMessageIds /\ deletedMessageIds' # <<>>)
          => \E id \in BagToSet(deleteRequests) :
               /\ DeleteResponds(id, TRUE)
               /\ deletedMessageIds' = Append(deletedMessageIds, id)]_vars

\* C24 witness: the DELETE for message 1 failed and the one for message 2
\* succeeded; only message 2 is marked deleted and no delete is in progress.
OneDeletedOneFailed ==
  /\ MessageListShown
  /\ Ids(messages) = {1, 2}
  /\ deletedMessageIds = <<2>>
  /\ deletingMessageId = Null
  /\ deleteRequests = EmptyBag

\* C25: while a DELETE request for a displayed message is in flight, the
\* delete button of that message is disabled and no second DELETE request
\* for it is in flight.
DeleteDisabledWhileInFlight ==
  MessageListShown =>
    \A id \in Ids(messages) :
      BagIn(id, deleteRequests)
        => DeleteDisabled(id) /\ CopiesIn(id, deleteRequests) <= 1

\* C26: a callback is invoked only while usePoll is mounted with enabled
\* true, no interval stays set after enabled became false or the hook
\* unmounted, and the function invoked is the callback of the most recent
\* render.
PollsLatestWhileEnabled ==
  /\ invoked # Null => (pollMounted /\ enabled /\ invoked = callback)
  /\ activeIntervals # {} => (pollMounted /\ enabled)
  /\ activeIntervals \subseteq {intervalId}

\* C26 witness: a tick called the callback of the latest render, which is not
\* the callback passed when the interval was set.
InvokedLaterCallback ==
  /\ invoked # Null
  /\ invoked = callback
  /\ invoked # callbackAtCreation
  /\ intervalsCreated > 1

\* C27: with immediate true, an endpoint and options left at its default,
\* the effect of useApi issues exactly one request, the one of the mount.
OneRequestOnMount ==
  (apiPhase = "mounted" /\ immediate /\ optionsDefault /\ endpoint # NoEndpoint)
    => effectRequests = 1

\* C28: a fetchData call that ended leaves loading false (loading is false
\* whenever no call is in progress); a failed request sets error to its
\* message and leaves data as it was; a successful one stores its result in
\* data and leaves error null.
FetchDataSettles ==
  [][/\ \A outcome \in Outcomes, result \in Results :
          (apiPhase = "mounted" /\ ApiResponds(outcome, result))
            => /\ ~apiLoading'
               /\ IF outcome = "ok"
                    THEN apiData' = result /\ apiError' = NoError
                    ELSE apiData' = apiData /\ apiError' = outcome
     /\ (apiPhase' = "mounted" /\ apiRequests' = 0) => ~apiLoading']_vars

\* C29: hasMore is true exactly when lastEvaluatedKey is non-null, and after
\* a completed scan or query exactly when the response carried a key; a
\* completed fetch that was issued with a start key appends its page to
\* items and one issued without replaces items; Load More, and nothing else,
\* issues a fetch with a start key, which is the key held.
PaginationConsistent ==
  [][/\ hasMore' <=> lastEvaluatedKey' # Null
     /\ itemRequests' # itemRequests
          => /\ \A req \in BagToSet(itemRequests), page \in Pages, key \in ResponseKeys :
                  ItemsRespond(req, TRUE, page, key)
                    => /\ hasMore' <=> (key \in 1..MaxKey)
                       /\ lastEvaluatedKey' = (IF key \in 1..MaxKey THEN key ELSE Null)
                       /\ items' = IF req.startKey # Null
                                     THEN items \o ItemsOrEmpty(page)
                                     ELSE ItemsOrEmpty(page)
             /\ \A req \in Requests :
                  itemRequests' = itemRequests (+) SetToBag({req})
                    => /\ req.startKey # Null <=> LoadMore
                       /\ req.startKey # Null => req.startKey = lastEvaluatedKey]_vars

\* C29 witness: Load More appended a second page to the first one, and the
\* response carried a key for a third.
SecondPageAppended ==
  /\ tableName # NoTable
  /\ Len(items) = 2
  /\ items[1] # items[2]
  /\ hasMore
  /\ lastEvaluatedKey # Null
  /\ ~itemsLoading
  /\ itemRequests = EmptyBag
====
